---- MODULE Spec2Model ----
(***************************************************************************)
(* A model of parser.py: the entity classes Message, State, Group and      *)
(* Fragment, and the ScenarioBuilder that builds the scenario tree.        *)
(*                                                                         *)
(* Python objects live in `heap`, a sequence indexed by object address:    *)
(* constructing an object appends it to the heap and its address is its    *)
(* index.  References (self.base entries, Group.items, Fragment.groups,    *)
(* current_fragment, current_group, state_stack pairs) are addresses, and  *)
(* the Python value None is address 0.  An object that is constructed and  *)
(* then dropped because the method raises stays on the heap, unreachable.  *)
(***************************************************************************)
EXTENDS Integers, Sequences, FiniteSets, TLC

\* ------------------------------------------------------------------ bounds
\* Objects constructed during one run of the builder.
MaxObjects == 6

\* Objects constructed during one run of two builders.
MaxObjectsOfTwo == 4

\* Arguments the caller passes.
ExchangedItemsArgs == { <<"data1", "data2">>, <<"data5">> }
StateInfoArgs == { "Processing" }
\* An optional guard is <<>> for None and <<g>> for the label g.
GuardArgs == { <<>>, <<"x > 5">> }

\* ------------------------------------------------------------------- state
VARIABLES
    heap,              \* the objects constructed so far, by address
    base,              \* self.base
    current_fragment,  \* self.current_fragment
    current_group,     \* self.current_group
    state_stack,       \* self.state_stack
    event_counter,     \* self.event_counter
    group_counter,     \* self.group_counter
    fragment_counter,  \* self.fragment_counter
    call,              \* the last builder method called, with its argument
    outcome,           \* "ok" or the message of the exception it raised
    returned,          \* the address it returned, None if it returned nothing
    open,              \* history: the fragments entered and not yet exited
    other,             \* a second ScenarioBuilder of the process: its fields
    driver             \* the calls the __main__ driver has made so far

\* The fields of the builder the caller is calling, with its history.
builder == <<base, current_fragment, current_group, state_stack,
             event_counter, group_counter, fragment_counter, open>>

vars == <<heap, base, current_fragment, current_group, state_stack,
          event_counter, group_counter, fragment_counter,
          call, outcome, returned, open, other, driver>>

None == 0

\* The messages of the exceptions the builder raises.
ErrNoGroupForEvent ==
    "Error: In a fragment but no group is active. Call enter_group() first."
ErrNoGroupForFragment ==
    "Error: Cannot attach a new fragment because no active group exists."
ErrNotInFragment ==
    "Error: Cannot enter a group when not inside a fragment."
ErrNoFragmentToExit ==
    "Error: No fragment to exit from."
\* None.name
ErrNoneHasNoName ==
    "AttributeError: 'NoneType' object has no attribute 'name'"

\* ---------------------------------------------------------- entity classes
\* Message built after the counter was incremented.
Message_after_increment(id, exchanged_items) ==
    [type |-> "message", id |-> id + 1, exchanged_items |-> exchanged_items]

Message(id, exchanged_items) ==
    [type |-> "message", id |-> id, exchanged_items |-> exchanged_items]

State(id, state_info) ==
    [type |-> "state", id |-> id, state_info |-> state_info]

\* Group_unguarded is Group with the guard argument not stored.
Group_unguarded(id, name, guard) ==
    [type |-> "group", id |-> id, name |-> name, guard |-> <<>>,
     items |-> <<>>]

Group(id, name, guard) ==
    [type |-> "group", id |-> id, name |-> name, guard |-> guard,
     items |-> <<>>]

Fragment(id, name) ==
    [type |-> "fragment", id |-> id, name |-> name, groups |-> <<>>]

\* isinstance(item, Message) or isinstance(item, State)
IsEventObject(o) == o.type \in {"message", "state"}

\* f"Group {n}" and f"Fragment {n}"
GroupName(n) == <<"Group", n>>
FragmentName(n) == <<"Fragment", n>>

\* list.append(x); append_front is list.insert(0, x) in its place.
append_front(list, x) == <<x>> \o list
append(list, x) == Append(list, x)

\* Group.add_item on the group at address g; add_item_twice appends the
\* item a second time.
add_item_twice(h, g, item) ==
    [h EXCEPT ![g].items = append(append(@, item), item)]
add_item(h, g, item) == [h EXCEPT ![g].items = append(@, item)]

\* Fragment.add_group on the fragment at address f; add_group_replacing is
\* self.groups = [group] in its place.
add_group_replacing(h, f, group) == [h EXCEPT ![f].groups = <<group>>]
add_group(h, f, group) == [h EXCEPT ![f].groups = append(@, group)]

\* counter += 1; increment_stuck is the statement left out.
increment_stuck(counter) == counter
increment(counter) == counter + 1

\* ----------------------------------------------------------------- builder
Init ==
    /\ heap = <<>>
    /\ base = <<>>
    /\ current_fragment = None
    /\ current_group = None
    /\ state_stack = <<>>
    /\ event_counter = 1
    /\ group_counter = 1
    /\ fragment_counter = 1
    /\ call = [name |-> "__init__", arg |-> <<>>]
    /\ outcome = "ok"
    /\ returned = None
    /\ open = <<>>
    /\ other = <<<<>>, None, None, <<>>, 1, 1, 1, <<>>>>
    /\ driver = <<>>


\* `self.current_fragment is None` in add_message, add_state and enter_fragment;
\* at_base_by_group tests self.current_group in its place.
at_base_by_group == current_group = None
at_base == current_fragment = None

\* `self.current_fragment is None` in enter_group; not_in_fragment_by_group
\* tests self.current_group in its place.
not_in_fragment_by_group == current_group = None
not_in_fragment == current_fragment = None

\* The pair enter_fragment saves on the state stack; saved_state_after_update
\* is the pair read after current_fragment was set to the new fragment.
saved_state_after_update == <<Len(heap) + 1, current_group>>
saved_state == <<current_fragment, current_group>>

\* list.pop(): the value returned and the list left.  pop_value_first is
\* list.pop(0)'s value, pop_rest_kept is list[-1] read without popping.
pop_value_first(list) == list[1]
pop_value(list) == list[Len(list)]

pop_rest_kept(list) == list
pop_rest(list) == SubSeq(list, 1, Len(list) - 1)

add_message(exchanged_items) ==
    LET message == Len(heap) + 1
        h1 == Append(heap, Message(event_counter, exchanged_items))
    IN  /\ call' = [name |-> "add_message", arg |-> exchanged_items]
        /\ event_counter' = increment(event_counter)
        /\ IF at_base
           THEN /\ base' = append(base, message)
                /\ heap' = h1
                /\ outcome' = "ok"
                /\ returned' = message
           ELSE IF current_group = None
           THEN /\ outcome' = ErrNoGroupForEvent
                /\ returned' = None
                /\ heap' = h1
                /\ base' = base
           ELSE /\ heap' = add_item(h1, current_group, message)
                /\ base' = base
                /\ outcome' = "ok"
                /\ returned' = message
        /\ UNCHANGED <<current_fragment, current_group, state_stack,
                       group_counter, fragment_counter, open>>

add_state(state_info) ==
    LET state_event == Len(heap) + 1
        h1 == Append(heap, State(event_counter, state_info))
    IN  /\ call' = [name |-> "add_state", arg |-> state_info]
        /\ event_counter' = increment(event_counter)
        /\ IF at_base
           THEN /\ base' = append(base, state_event)
                /\ heap' = h1
                /\ outcome' = "ok"
                /\ returned' = state_event
           ELSE IF current_group = None
           THEN /\ outcome' = ErrNoGroupForEvent
                /\ returned' = None
                /\ heap' = h1
                /\ base' = base
           ELSE /\ heap' = add_item(h1, current_group, state_event)
                /\ base' = base
                /\ outcome' = "ok"
                /\ returned' = state_event
        /\ UNCHANGED <<current_fragment, current_group, state_stack,
                       group_counter, fragment_counter, open>>

\* enter_fragment with the state saved before the new fragment is attached.
enter_fragment_save_first ==
    LET frag == Len(heap) + 1
        h1 == Append(heap, Fragment(fragment_counter,
                                    FragmentName(fragment_counter)))
        fails == ~at_base /\ current_group = None
    IN  /\ call' = [name |-> "enter_fragment", arg |-> <<>>]
        /\ fragment_counter' = increment(fragment_counter)
        /\ state_stack' = append(state_stack, saved_state)
        /\ current_fragment' = frag
        /\ current_group' = None
        /\ base' = IF at_base THEN append(base, frag) ELSE base
        /\ heap' = IF at_base \/ fails THEN h1
                   ELSE add_item(h1, current_group, frag)
        /\ outcome' = IF fails THEN ErrNoGroupForFragment ELSE "ok"
        /\ returned' = IF fails THEN None ELSE frag
        /\ open' = IF fails THEN open
                   ELSE Append(open, [frag |-> frag, fragment |-> current_fragment,
                                      group |-> current_group,
                                      stack |-> state_stack, latest |-> None])
        /\ UNCHANGED <<event_counter, group_counter>>

enter_fragment ==
    LET frag == Len(heap) + 1
        h1 == Append(heap, Fragment(fragment_counter,
                                    FragmentName(fragment_counter)))
        entered == /\ state_stack' = append(state_stack, saved_state)
                   /\ current_fragment' = frag
                   /\ current_group' = None
                   /\ outcome' = "ok"
                   /\ returned' = frag
                   /\ open' = Append(open, [frag |-> frag,
                                            fragment |-> current_fragment,
                                            group |-> current_group,
                                            stack |-> state_stack,
                                            latest |-> None])
    IN  /\ call' = [name |-> "enter_fragment", arg |-> <<>>]
        /\ fragment_counter' = increment(fragment_counter)
        /\ IF at_base
           THEN /\ base' = append(base, frag)
                /\ heap' = h1
                /\ entered
           ELSE IF current_group = None
           THEN /\ outcome' = ErrNoGroupForFragment
                /\ returned' = None
                /\ heap' = h1
                /\ UNCHANGED <<base, state_stack, current_fragment,
                               current_group, open>>
           ELSE /\ heap' = add_item(h1, current_group, frag)
                /\ base' = base
                /\ entered
        /\ UNCHANGED <<event_counter, group_counter>>

enter_group(guard) ==
    LET group == Len(heap) + 1
        h1 == Append(heap, Group(group_counter, GroupName(group_counter),
                                 guard))
    IN  /\ call' = [name |-> "enter_group", arg |-> guard]
        /\ IF not_in_fragment
           THEN /\ outcome' = ErrNotInFragment
                /\ returned' = None
                /\ UNCHANGED <<heap, group_counter, current_group, open>>
           ELSE /\ group_counter' = increment(group_counter)
                /\ heap' = add_group(h1, current_fragment, group)
                /\ current_group' = group
                /\ outcome' = "ok"
                /\ returned' = group
                /\ open' = IF open = <<>> THEN open
                           ELSE [open EXCEPT ![Len(open)].latest = group]
        /\ UNCHANGED <<base, current_fragment, state_stack,
                       event_counter, fragment_counter>>

\* exit_fragment refusing to leave a fragment that has no group.
exit_fragment_validating ==
    /\ call' = [name |-> "exit_fragment", arg |-> <<>>]
    /\ returned' = None
    /\ IF state_stack = <<>>
       THEN /\ outcome' = ErrNoFragmentToExit
            /\ UNCHANGED <<state_stack, current_fragment, current_group, open>>
       ELSE IF heap[current_fragment].groups = <<>>
       THEN /\ outcome' = "Error: Fragment has no group."
            /\ UNCHANGED <<state_stack, current_fragment, current_group, open>>
       ELSE /\ state_stack' = pop_rest(state_stack)
            /\ current_fragment' = pop_value(state_stack)[1]
            /\ current_group' = pop_value(state_stack)[2]
            /\ outcome' = "ok"
            /\ open' = SubSeq(open, 1, Len(open) - 1)
    /\ UNCHANGED <<heap, base, event_counter, group_counter, fragment_counter>>

exit_fragment ==
    /\ call' = [name |-> "exit_fragment", arg |-> <<>>]
    /\ returned' = None
    /\ IF state_stack = <<>>
       THEN /\ outcome' = ErrNoFragmentToExit
            /\ UNCHANGED <<state_stack, current_fragment, current_group, open>>
       ELSE LET prev == pop_value(state_stack)
            IN  /\ state_stack' = pop_rest(state_stack)
                /\ IF current_fragment = None
                   \* self.current_fragment.name raises after the pop
                   THEN /\ outcome' = ErrNoneHasNoName
                        /\ UNCHANGED <<current_fragment, current_group, open>>
                   ELSE /\ current_fragment' = prev[1]
                        /\ current_group' = prev[2]
                        /\ outcome' = "ok"
                        /\ open' = IF open = <<>> THEN open
                                   ELSE SubSeq(open, 1, Len(open) - 1)
    /\ UNCHANGED <<heap, base, event_counter, group_counter, fragment_counter>>

\* The run stops constructing objects at the bound.
Room == Len(heap) < MaxObjects

\* One builder, any method called next with any argument.
Next ==
    \/ /\ Room
       /\ \E exchanged_items \in ExchangedItemsArgs :
             add_message(exchanged_items)
       /\ UNCHANGED <<other, driver>>
    \/ /\ Room
       /\ \E state_info \in StateInfoArgs : add_state(state_info)
       /\ UNCHANGED <<other, driver>>
    \/ /\ Room
       /\ enter_fragment
       /\ UNCHANGED <<other, driver>>
    \/ /\ Room \/ not_in_fragment
       /\ \E guard \in GuardArgs : enter_group(guard)
       /\ UNCHANGED <<other, driver>>
    \/ /\ exit_fragment
       /\ UNCHANGED <<other, driver>>

Spec == Init /\ [][Next]_vars

\* ---------------------------------------------------------- print_scenario
\* Message.__repr__ and State.__repr__
repr(o) ==
    IF o.type = "message"
    THEN <<"Message(", o.id, ", ", o.exchanged_items, ")">>
    ELSE <<"State(", o.id, ", ", o.state_info, ")">>

\* f" [Guard: {group.guard}]" if group.guard is not None else ""
guard_str(guard) ==
    IF guard # <<>> THEN <<" [Guard: ", guard[1], "]">> ELSE <<>>

\* The lines print_scenario(items, indent) prints, in order.  A line is its
\* indentation in units of two spaces followed by the pieces of its text.
RECURSIVE print_scenario(_, _, _)
RECURSIVE print_groups(_, _, _)
print_scenario(h, items, indent) ==
    IF items = <<>> THEN <<>>
    ELSE LET item == h[Head(items)]
             lines ==
                 IF IsEventObject(item)
                 THEN << <<indent, "- ", repr(item)>> >>
                 ELSE IF item.type = "fragment"
                 THEN << <<indent, "- ", item.name, " (Fragment):">> >>
                      \o print_groups(h, item.groups, indent)
                 ELSE << <<indent, "- Unknown item: ", item>> >>
         IN  lines \o print_scenario(h, Tail(items), indent)

\* The inner loop over item.groups.
print_groups(h, groups, indent) ==
    IF groups = <<>> THEN <<>>
    ELSE LET group == h[Head(groups)]
         IN  << <<indent, "  * ", group.name, guard_str(group.guard),
                  " (Group):">> >>
             \o print_scenario(h, group.items, indent + 3)
             \o print_groups(h, Tail(groups), indent)

\* ------------------------------------------------------- __main__ driver
\* The calls of the driver, in order.
Main == <<
    [name |-> "add_message", arg |-> <<"data1", "data2">>],
    [name |-> "add_message", arg |-> <<"data3", "data4">>],
    [name |-> "enter_fragment", arg |-> <<>>],
    [name |-> "enter_group", arg |-> <<"x > 5">>],
    [name |-> "add_message", arg |-> <<"data5">>],
    [name |-> "add_state", arg |-> "Processing"],
    [name |-> "enter_group", arg |-> <<"x <= 5">>],
    [name |-> "add_message", arg |-> <<"data6", "data7">>],
    [name |-> "exit_fragment", arg |-> <<>>],
    [name |-> "add_message", arg |-> <<"data8">> ] >>

\* The arguments the driver passes to the method called `name`.
MainArgs(name) == {Main[i].arg : i \in {j \in DOMAIN Main : Main[j].name = name}}

\* The driver is about to call `name`.
MainAt(name) ==
    /\ Len(driver) < Len(Main)
    /\ Main[Len(driver) + 1].name = name

MainCalled(name, arg) == driver' = Append(driver, [name |-> name, arg |-> arg])

\* The driver's sequence of calls, each with any of the arguments the driver
\* passes to that method; the driver's own run is the one where driver = Main.
MainNext ==
    \/ /\ MainAt("add_message")
       /\ \E exchanged_items \in MainArgs("add_message") :
             add_message(exchanged_items)
                /\ MainCalled("add_message", exchanged_items)
       /\ UNCHANGED other
    \/ /\ MainAt("add_state")
       /\ \E state_info \in MainArgs("add_state") :
             add_state(state_info) /\ MainCalled("add_state", state_info)
       /\ UNCHANGED other
    \/ /\ MainAt("enter_fragment")
       /\ enter_fragment /\ MainCalled("enter_fragment", <<>>)
       /\ UNCHANGED other
    \/ /\ MainAt("enter_group")
       /\ \E guard \in MainArgs("enter_group") :
             enter_group(guard) /\ MainCalled("enter_group", guard)
       /\ UNCHANGED other
    \/ /\ MainAt("exit_fragment")
       /\ exit_fragment /\ MainCalled("exit_fragment", <<>>)
       /\ UNCHANGED other

MainSpec == Init /\ [][MainNext]_vars

\* ------------------------------------------------------------ two builders
\* The caller holds two ScenarioBuilder instances and turns from one to the
\* other: the fields of the builder called so far are put aside in `other`
\* and those of the other builder take their place.  The heap is the
\* process's and is shared.
switch_builder ==
    /\ other' = builder
    /\ base' = other[1]
    /\ current_fragment' = other[2]
    /\ current_group' = other[3]
    /\ state_stack' = other[4]
    /\ event_counter' = other[5]
    /\ group_counter' = other[6]
    /\ fragment_counter' = other[7]
    /\ open' = other[8]
    /\ UNCHANGED <<heap, call, outcome, returned, driver>>

TwoRoom == Len(heap) < MaxObjectsOfTwo

\* Two builders, any method of either called next.
TwoNext ==
    \/ /\ TwoRoom
       /\ \E exchanged_items \in ExchangedItemsArgs :
             add_message(exchanged_items)
       /\ UNCHANGED <<other, driver>>
    \/ /\ TwoRoom
       /\ \E state_info \in StateInfoArgs : add_state(state_info)
       /\ UNCHANGED <<other, driver>>
    \/ /\ TwoRoom
       /\ enter_fragment
       /\ UNCHANGED <<other, driver>>
    \/ /\ TwoRoom \/ not_in_fragment
       /\ \E guard \in GuardArgs : enter_group(guard)
       /\ UNCHANGED <<other, driver>>
    \/ /\ exit_fragment
       /\ UNCHANGED <<other, driver>>
    \/ switch_builder

TwoSpec == Init /\ [][TwoNext]_vars


\* ------------------------------------------------------------- vocabulary
NoActiveGroup == {ErrNoGroupForEvent, ErrNoGroupForFragment}
NoActiveFragment == {ErrNotInFragment}
EmptyContextStack == {ErrNoFragmentToExit}

IsEvent(o) == o.type \in {"message", "state"}
KindOf(o) == IF IsEvent(o) THEN "event" ELSE o.type

IsPrefix(s, t) == Len(s) <= Len(t) /\ SubSeq(t, 1, Len(s)) = s
Last(s) == s[Len(s)]
Elems(s) == {s[i] : i \in DOMAIN s}

\* The children of the container at address a.
Children(h, a) ==
    IF h[a].type = "group" THEN h[a].items
    ELSE IF h[a].type = "fragment" THEN h[a].groups
    ELSE <<>>

\* The objects constructed by the step.
Created == (Len(heap) + 1)..Len(heap')

EventCalls == {"add_message", "add_state"}
AttachCalls == {"add_message", "add_state", "enter_fragment"}
Succeeded(names) == call'.name \in names /\ outcome' = "ok"

\* ----------------------------------------------------------------- C1
IdsIncreasing ==
    \A a, b \in DOMAIN heap :
        (a < b /\ KindOf(heap[a]) = KindOf(heap[b])) => heap[a].id < heap[b].id

FirstIdIsOne ==
    \A a \in DOMAIN heap :
        (\A b \in 1..(a - 1) : KindOf(heap[b]) # KindOf(heap[a]))
            => heap[a].id = 1

CountersAhead ==
    \A a \in DOMAIN heap :
        /\ KindOf(heap[a]) = "event" => heap[a].id < event_counter
        /\ KindOf(heap[a]) = "group" => heap[a].id < group_counter
        /\ KindOf(heap[a]) = "fragment" => heap[a].id < fragment_counter

CountersIndependent ==
    \A n \in Created :
        /\ KindOf(heap'[n]) # "event" => event_counter' = event_counter
        /\ KindOf(heap'[n]) # "group" => group_counter' = group_counter
        /\ KindOf(heap'[n]) # "fragment" => fragment_counter' = fragment_counter

\* C1: the ids handed to created events, groups and fragments are strictly
\* increasing in creation order within their kind, the first id of each kind
\* is 1, no id is handed out twice (each counter stays ahead of every id of
\* its kind), and creating a node of one kind leaves the counters of the
\* other two kinds unchanged.
C1_IdsMonotoneIndependent ==
    /\ [](IdsIncreasing /\ FirstIdIsOne /\ CountersAhead)
    /\ [][CountersIndependent]_vars

C1_Witness ==
    \A k \in {"event", "group", "fragment"} :
        Cardinality({a \in DOMAIN heap : KindOf(heap[a]) = k}) >= 2

\* ----------------------------------------------------------------- C2
\* C2: every step leaves the root sequence, every Group's items and every
\* Fragment's groups a prefix of what they are after the step, and no object
\* changes kind or disappears.
C2_AppendOnly ==
    [][ /\ IsPrefix(base, base')
        /\ Len(heap) <= Len(heap')
        /\ \A a \in DOMAIN heap :
              /\ heap'[a].type = heap[a].type
              /\ IsPrefix(Children(heap, a), Children(heap', a)) ]_vars

C2_Witness ==
    /\ Len(base) >= 2
    /\ \E f \in DOMAIN heap :
          /\ heap[f].type = "fragment"
          /\ Len(heap[f].groups) >= 2
          /\ Len(heap[Last(heap[f].groups)].items) >= 2


\* ----------------------------------------------------------------- C3
\* The fragment exited by the step is the last one of `open`, which holds
\* what enter_fragment read when it entered that fragment.
Matching == Last(open)

\* C3: a successful exit_fragment() leaves the current fragment, the current
\* group and the stack exactly as they were immediately before the matching
\* enter_fragment(), whatever balanced operations happened in between.
C3_ContextRestored ==
    [][ Succeeded({"exit_fragment"}) =>
          /\ open # <<>>
          /\ current_fragment' = Matching.fragment
          /\ current_group' = Matching.group
          /\ state_stack' = Matching.stack ]_vars

\* A nested fragment holding a group with an item has just been exited.
C3_Witness ==
    /\ call.name = "exit_fragment"
    /\ outcome = "ok"
    /\ current_group # None
    /\ \E f \in Elems(heap[current_group].items) :
          /\ heap[f].type = "fragment"
          /\ heap[f].groups # <<>>
          /\ heap[Last(heap[f].groups)].items # <<>>

\* ----------------------------------------------------------------- C4
AtTopLevel ==
    current_fragment = None /\ current_group = None /\ state_stack = <<>>

\* C4: the stack is as deep as the number of fragments entered and not yet
\* exited; exit_fragment() succeeds while a fragment is open, closing one,
\* and once every entered fragment is exited the builder is at top level and
\* one further exit_fragment() fails with EmptyContextStack.
C4_StackDiscipline ==
    /\ [](Len(state_stack) = Len(open) /\ (open = <<>> => AtTopLevel))
    /\ [][ call'.name = "exit_fragment" =>
             IF open # <<>>
             THEN outcome' = "ok" /\ Len(open') = Len(open) - 1
             ELSE outcome' \in EmptyContextStack /\ AtTopLevel' ]_vars

\* Two fragments nested in one another, nothing else, all exited, and one
\* exit too many.
C4_Witness ==
    /\ call.name = "exit_fragment"
    /\ outcome \in EmptyContextStack
    /\ \A a \in DOMAIN heap : ~IsEvent(heap[a])
    /\ \E g \in DOMAIN heap :
          /\ heap[g].type = "group"
          /\ \E f \in Elems(heap[g].items) : heap[f].type = "fragment"

\* ----------------------------------------------------------------- C5
InFragmentWithoutGroup == current_fragment # None /\ current_group = None

\* C5: add_message, add_state and enter_fragment fail with NoActiveGroup
\* exactly when a fragment is current and no group is; in every other state
\* they succeed; so each fails right after a successful enter_fragment().
C5_NoActiveGroupExactly ==
    [][ call'.name \in AttachCalls =>
          /\ outcome' \in NoActiveGroup <=> InFragmentWithoutGroup
          /\ ~InFragmentWithoutGroup => outcome' = "ok"
          /\ (call.name = "enter_fragment" /\ outcome = "ok")
                => outcome' \in NoActiveGroup ]_vars

\* A nested fragment was entered and add_state was called in it at once.
C5_Witness ==
    /\ call.name = "add_state"
    /\ outcome \in NoActiveGroup
    /\ Len(open) = 2
    /\ heap[current_fragment].groups = <<>>

\* ----------------------------------------------------------------- C6
\* C6: enter_group fails with NoActiveFragment exactly when no fragment is
\* current; whenever a fragment is current it succeeds, with or without a
\* current group, adding one more group to the same fragment.
C6_NoActiveFragmentExactly ==
    [][ call'.name = "enter_group" =>
          /\ outcome' \in NoActiveFragment <=> current_fragment = None
          /\ current_fragment # None =>
                /\ outcome' = "ok"
                /\ current_fragment' = current_fragment
                /\ Len(heap'[current_fragment].groups)
                     = Len(heap[current_fragment].groups) + 1 ]_vars

\* A third group in a row has been opened in one fragment.
C6_Witness ==
    /\ call.name = "enter_group"
    /\ outcome = "ok"
    /\ Len(heap[current_fragment].groups) >= 3

\* ----------------------------------------------------------------- C7
\* No object constructed by the step is referenced from the model.
NothingAttached ==
    /\ \A n \in Created : n \notin Elems(base')
    /\ \A n \in Created, a \in DOMAIN heap' :
          n \notin Elems(Children(heap', a))

\* C7: a failing operation leaves the root sequence, every existing Fragment
\* and Group, the current fragment, the current group and the stack as they
\* were, and attaches nothing.
C7_ErrorAtomicity ==
    [][ outcome' # "ok" =>
          /\ base' = base
          /\ \A a \in DOMAIN heap : heap'[a] = heap[a]
          /\ NothingAttached
          /\ current_fragment' = current_fragment
          /\ current_group' = current_group
          /\ state_stack' = state_stack ]_vars

\* enter_fragment has failed inside a fragment nested in another.
C7_Witness ==
    /\ call.name = "enter_fragment"
    /\ outcome \in NoActiveGroup
    /\ Len(state_stack) = 2


\* ----------------------------------------------------------------- C8
\* The event the call's arguments describe, with the id the counter held.
EventOfCall ==
    IF call'.name = "add_message"
    THEN [type |-> "message", id |-> event_counter,
          exchanged_items |-> call'.arg]
    ELSE [type |-> "state", id |-> event_counter, state_info |-> call'.arg]

\* The step appends `item` to the current group if a fragment is current
\* and to the root sequence otherwise, and changes no other container.
AttachedLast(item) ==
    /\ IF current_fragment # None
       THEN /\ base' = base
            /\ heap'[current_group].items
                 = Append(heap[current_group].items, item)
            /\ heap'[current_group]
                 = [heap[current_group] EXCEPT !.items = Append(@, item)]
       ELSE base' = Append(base, item)
    /\ \A a \in DOMAIN heap :
          (current_fragment = None \/ a # current_group) => heap'[a] = heap[a]

\* C8: a successful add_message or add_state creates exactly one event with
\* the next event id and the given payload, appends it last to the current
\* group inside a fragment and to the root sequence otherwise, changes no
\* other container nor the context, and returns the event.
C8_EventPlacement ==
    [][ Succeeded(EventCalls) =>
          /\ Len(heap') = Len(heap) + 1
          /\ heap'[Len(heap')] = EventOfCall
          /\ AttachedLast(Len(heap'))
          /\ returned' = Len(heap')
          /\ current_fragment' = current_fragment
          /\ current_group' = current_group
          /\ state_stack' = state_stack ]_vars

\* A message went behind an earlier item of a group, and one behind an
\* earlier item of the root sequence.
C8_Witness ==
    /\ call.name = "add_message"
    /\ outcome = "ok"
    /\ current_fragment # None
    /\ Len(heap[current_group].items) >= 2
    /\ returned = Last(heap[current_group].items)
    /\ heap[returned].exchanged_items = <<"data5">>
    /\ Len(base) >= 2
    /\ heap[base[1]].type = "state"

\* ----------------------------------------------------------------- C9
\* C9: a successful enter_fragment() attaches one new Fragment with no
\* groups last to the current group inside a fragment and to the root
\* sequence otherwise, pushes the pair (current fragment, current group) it
\* found, makes the new fragment current and no group current; and until
\* enter_group() succeeds in it nothing can be added inside it.
C9_EnterFragment ==
    /\ [][ Succeeded({"enter_fragment"}) =>
             /\ Len(heap') = Len(heap) + 1
             /\ heap'[Len(heap')].type = "fragment"
             /\ heap'[Len(heap')].id = fragment_counter
             /\ heap'[Len(heap')].groups = <<>>
             /\ AttachedLast(Len(heap'))
             /\ state_stack'
                  = Append(state_stack, <<current_fragment, current_group>>)
             /\ current_fragment' = Len(heap')
             /\ current_group' = None
             /\ returned' = Len(heap') ]_vars
    /\ [][ (current_fragment # None /\ heap[current_fragment].groups = <<>>
              /\ call'.name \in AttachCalls)
            => /\ outcome' \in NoActiveGroup
               /\ heap'[current_fragment] = heap[current_fragment] ]_vars

\* A fragment has been entered from inside a group that already had an item.
C9_Witness ==
    /\ call.name = "enter_fragment"
    /\ outcome = "ok"
    /\ Len(state_stack) = 2
    /\ Len(heap[Last(state_stack)[2]].items) >= 2
    /\ Last(heap[Last(state_stack)[2]].items) = current_fragment

\* ---------------------------------------------------------------- C10
\* C10: the current fragment is the latest fragment entered and not yet
\* exited (none when all are exited); the current group, when there is one,
\* belongs to the current fragment and is the group the latest enter_group()
\* on that fragment created; no group is current without a fragment.
C10_CurrentAreLatestOpen ==
    /\ current_fragment = (IF open = <<>> THEN None ELSE Last(open).frag)
    /\ current_fragment = None => current_group = None
    /\ current_fragment # None =>
          /\ heap[current_fragment].type = "fragment"
          /\ current_group = Last(open).latest
          /\ (current_group = None) = (heap[current_fragment].groups = <<>>)
          /\ current_group # None =>
                /\ heap[current_group].type = "group"
                /\ current_group = Last(heap[current_fragment].groups)

\* Back in the second group of a fragment after a nested fragment was
\* entered and exited there.
C10_Witness ==
    /\ call.name = "exit_fragment"
    /\ outcome = "ok"
    /\ current_group # None
    /\ Len(heap[current_fragment].groups) = 2
    /\ heap[Last(heap[current_group].items)].type = "fragment"


\* ---------------------------------------------------------------- C11
\* The ids of the objects at the addresses of a sequence.
IdsOf(s) == [i \in DOMAIN s |-> heap[s[i]].id]
TypesOf(s) == [i \in DOMAIN s |-> heap[s[i]].type]

\* The payload an event or a group was given.
PayloadOf(a) ==
    IF heap[a].type = "message" THEN heap[a].exchanged_items
    ELSE IF heap[a].type = "state" THEN heap[a].state_info
    ELSE heap[a].guard

\* The call of the driver that constructed the object at address a: the
\* driver's calls but exit_fragment construct one object each, in order.
Constructing == SelectSeq(Main, LAMBDA c : c.name # "exit_fragment")

MainDone == Len(driver) = Len(Main)

\* The shape the driver's calls build, whatever the arguments, with the
\* event ids running to `lastEvent`.
MainShape(lastEvent) ==
    /\ Len(base) = 4
    /\ TypesOf(base) = <<"message", "message", "fragment", "message">>
    /\ IdsOf(base) = <<1, 2, 1, lastEvent>>
    /\ LET groups == heap[base[3]].groups
       IN  /\ Len(groups) = 2
           /\ TypesOf(groups) = <<"group", "group">>
           /\ IdsOf(groups) = <<1, 2>>
           /\ TypesOf(heap[groups[1]].items) = <<"message", "state">>
           /\ IdsOf(heap[groups[1]].items) = <<3, 4>>
           /\ TypesOf(heap[groups[2]].items) = <<"message">>
           /\ IdsOf(heap[groups[2]].items) = <<lastEvent - 1>>

\* Every object carries the argument of the driver call that built it.
MainPayloads ==
    /\ Len(heap) = Len(Constructing)
    /\ \A a \in DOMAIN heap :
          heap[a].type # "fragment" => PayloadOf(a) = Constructing[a].arg

\* C11 as amended: the driver's calls raise nothing and build a root
\* sequence of 4 items: two Messages, a Fragment of two Groups (guarded
\* "x > 5" with a Message then a State, guarded "x <= 5" with a Message)
\* and a Message; the six events take the ids 1..6 in call order, the
\* fragment 1, the groups 1 and 2.
C11_EndToEnd ==
    /\ outcome = "ok"
    /\ MainDone => MainShape(6) /\ AtTopLevel
    /\ (MainDone /\ driver = Main) =>
          /\ MainPayloads
          /\ heap[heap[base[3]].groups[1]].guard = <<"x > 5">>
          /\ heap[heap[base[3]].groups[2]].guard = <<"x <= 5">>

\* C11 as stated: the same, with the event ids running from 1 to 8.
C11_AsStated ==
    /\ outcome = "ok"
    /\ MainDone => MainShape(8)

\* The driver's own run has ended.
C11_Witness ==
    /\ driver = Main
    /\ outcome = "ok"
    /\ heap[base[4]].exchanged_items = <<"data8">>


\* ---------------------------------------------------------------- C12
\* The nodes of the model under a sequence of items: the items, and under
\* each Fragment its Groups and the nodes under their items.
RECURSIVE Nodes(_, _)
Nodes(h, items) ==
    UNION { {items[i]} \cup
            (IF h[items[i]].type = "fragment"
             THEN UNION { {g} \cup Nodes(h, h[g].items) :
                          g \in Elems(h[items[i]].groups) }
             ELSE {}) : i \in DOMAIN items }

EventsUnder(h, items) == {a \in Nodes(h, items) : IsEvent(h[a])}

DistinctIds(S) == \A a, b \in S : a # b => heap[a].id # heap[b].id

\* C12 as stated: no two events of the process carry the same id, whichever
\* builder created them.
C12_AsStated ==
    DistinctIds({a \in DOMAIN heap : IsEvent(heap[a])})

\* C12 as amended: no two events in the model of one ScenarioBuilder carry
\* the same id, and each builder's counter is ahead of the ids of its
\* events, however the calls on two builders are interleaved.
C12_UniquePerBuilder ==
    /\ DistinctIds(EventsUnder(heap, base))
    /\ DistinctIds(EventsUnder(heap, other[1]))
    /\ \A a \in EventsUnder(heap, base) : heap[a].id < event_counter
    /\ \A a \in EventsUnder(heap, other[1]) : heap[a].id < other[5]

\* Each of two builders holds two events, added in turn.
C12_Witness ==
    /\ Cardinality(EventsUnder(heap, base)) = 2
    /\ Cardinality(EventsUnder(heap, other[1])) = 2
    /\ base = <<2, 4>>


\* ---------------------------------------------------------------- C13
\* The branch header lines of the rendering of the model.
BranchHeaders(h, items) ==
    LET lines == print_scenario(h, items, 0)
    IN  {lines[i] : i \in {j \in DOMAIN lines : lines[j][2] = "  * "}}

\* The rendering shows the group at address g with the guard part `part`.
HeaderShows(h, items, g, part) ==
    \E line \in BranchHeaders(h, items) :
        line[3] = h[g].name /\ line[4] = part

GroupsOf(h) == {g \in DOMAIN h : h[g].type = "group"}

\* C13: enter_group stores the guard it is given, absent or a label, and no
\* step changes the guard of an existing group; the branch header of a group
\* without a guard has no guard part and that of a group with the label g
\* has the guard part made of exactly g.
C13_GuardVerbatim ==
    /\ [][ /\ \A g \in GroupsOf(heap) : heap'[g].guard = heap[g].guard
            /\ Succeeded({"enter_group"}) =>
                  /\ returned' \in GroupsOf(heap') \ GroupsOf(heap)
                  /\ heap'[returned'].guard = call'.arg ]_vars
    /\ [](\A g \in GroupsOf(heap) \cap Nodes(heap, base) :
             HeaderShows(heap, base, g,
                         IF heap[g].guard = <<>> THEN <<>>
                         ELSE <<" [Guard: ", heap[g].guard[1], "]">>))

\* A fragment with an unguarded group and a group guarded "x > 5", rendered
\* after further calls.
C13_Witness ==
    /\ call.name = "add_message"
    /\ outcome = "ok"
    /\ \E f \in DOMAIN heap :
          /\ heap[f].type = "fragment"
          /\ Len(heap[f].groups) = 2
          /\ heap[heap[f].groups[1]].guard = <<>>
          /\ heap[heap[f].groups[2]].guard = <<"x > 5">>
          /\ HeaderShows(heap, base, heap[f].groups[1], <<>>)
          /\ HeaderShows(heap, base, heap[f].groups[2],
                         <<" [Guard: ", "x > 5", "]">>)


\* ---------------------------------------------------------------- C14
\* The places where address n is a child: <<0, i>> is position i of the
\* root sequence, <<a, i>> position i of the children of the container a.
Places(h, b, n) ==
    {<<0, i>> : i \in {j \in DOMAIN b : b[j] = n}}
    \cup UNION { {<<a, i>> : i \in {j \in DOMAIN Children(h, a) :
                                       Children(h, a)[j] = n}} :
                 a \in DOMAIN h }

\* C14: a successful exit_fragment() takes exactly the top entry off the
\* stack and changes, besides, only the current fragment and the current
\* group: the root sequence, every object and the three counters are as
\* before, and the exited fragment is where it was in its parent.
C14_ExitFrame ==
    [][ Succeeded({"exit_fragment"}) =>
          /\ state_stack # <<>>
          /\ state_stack' = SubSeq(state_stack, 1, Len(state_stack) - 1)
          /\ base' = base
          /\ heap' = heap
          /\ event_counter' = event_counter
          /\ group_counter' = group_counter
          /\ fragment_counter' = fragment_counter
          /\ Places(heap, base, current_fragment) # {}
          /\ Places(heap', base', current_fragment)
               = Places(heap, base, current_fragment) ]_vars

\* The fragment exited is the second item of a group and has a group.
C14_Witness ==
    /\ call.name = "exit_fragment"
    /\ outcome = "ok"
    /\ current_group # None
    /\ Len(heap[current_group].items) = 2
    /\ heap[heap[current_group].items[2]].type = "fragment"
    /\ heap[heap[current_group].items[2]].groups # <<>>

\* ---------------------------------------------------------------- C15
\* Every child reference of the model, one after the other: the root
\* sequence, then the children of each container.
RECURSIVE ChildrenUpTo(_, _)
ChildrenUpTo(h, n) ==
    IF n = 0 THEN <<>> ELSE ChildrenUpTo(h, n - 1) \o Children(h, n)

References(h, b) == b \o ChildrenUpTo(h, Len(h))

ItemTypes == {"message", "state", "fragment"}

\* Children are of the kinds their container holds and were constructed
\* after it, so no container is under itself.
WellFormed ==
    /\ \A i \in DOMAIN base : heap[base[i]].type \in ItemTypes
    /\ \A a \in DOMAIN heap :
          \A i \in DOMAIN Children(heap, a) :
              /\ Children(heap, a)[i] > a
              /\ heap[a].type = "group"
                    => heap[Children(heap, a)[i]].type \in ItemTypes
              /\ heap[a].type = "fragment"
                    => heap[Children(heap, a)[i]].type = "group"

\* C15: every node is a child at one place at most (no address occurs
\* twice among all child references), the nodes reached from the root are
\* exactly the nodes that are a child somewhere, every Group is in a
\* Fragment, no container is under itself; and each successful add_message,
\* add_state, enter_fragment or enter_group adds exactly one node.
C15_TreeShape ==
    /\ [](LET refs == References(heap, base)
          IN  /\ WellFormed
              /\ Cardinality(Elems(refs)) = Len(refs)
              /\ Nodes(heap, base) = Elems(refs)
              /\ GroupsOf(heap) \subseteq Elems(refs))
    /\ [][ Succeeded(AttachCalls \cup {"enter_group"}) =>
             /\ Len(heap') = Len(heap) + 1
             /\ Len(References(heap', base'))
                  = Len(References(heap, base)) + 1
             /\ Len(heap') \in Elems(References(heap', base')) ]_vars

\* A fragment nested in a group of a fragment, with events at every level.
C15_Witness ==
    /\ Cardinality(Nodes(heap, base)) = 6
    /\ \E g \in GroupsOf(heap) :
          /\ \E i \in DOMAIN heap[g].items :
                heap[heap[g].items[i]].type = "fragment"
          /\ \E i \in DOMAIN heap[g].items : IsEvent(heap[heap[g].items[i]])
    /\ \E i \in DOMAIN base : IsEvent(heap[base[i]])


\* ---------------------------------------------------------------- C16
OpenFragments == {open[i].frag : i \in DOMAIN open}

NoGaps(kind) ==
    LET ids == {heap[a].id : a \in {n \in Nodes(heap, base) :
                                      KindOf(heap[n]) = kind}}
    IN  ids = 1..Cardinality(ids)

\* C17 as stated: a failing call leaves the three counters as they were,
\* and the ids of the events, of the fragments and of the groups in the
\* model are 1..k without gaps.
C17_NoIdConsumed ==
    /\ [][ outcome' # "ok" =>
             /\ event_counter' = event_counter
             /\ group_counter' = group_counter
             /\ fragment_counter' = fragment_counter ]_vars
    /\ [](NoGaps("event") /\ NoGaps("fragment") /\ NoGaps("group"))

\* ---------------------------------------------------------------- C18
\* C18: the stack is empty exactly when no fragment is current, is as long
\* as the number of fragments entered and not exited, has (None, None) at
\* the bottom and a fragment with one of its groups in every other entry;
\* exit_fragment() fails exactly at top level, with EmptyContextStack and
\* nothing else, and leaves a group current when it exits a nested fragment.
C18_StackShape ==
    /\ [](/\ (state_stack = <<>>) = (current_fragment = None)
          /\ Len(state_stack) = Len(open)
          /\ \A i \in DOMAIN state_stack :
                IF i = 1 THEN state_stack[i] = <<None, None>>
                ELSE /\ state_stack[i][1] # None
                     /\ state_stack[i][2] # None
                     /\ heap[state_stack[i][1]].type = "fragment"
                     /\ state_stack[i][2]
                          \in Elems(heap[state_stack[i][1]].groups))
    /\ [][ call'.name = "exit_fragment" =>
             /\ outcome' \in {"ok"} \cup EmptyContextStack
             /\ (outcome' \in EmptyContextStack) = (current_fragment = None)
             /\ (outcome' = "ok" /\ Len(state_stack) >= 2)
                   => current_group' # None ]_vars

\* The innermost of three nested fragments has been exited.
C18_Witness ==
    /\ call.name = "exit_fragment"
    /\ outcome = "ok"
    /\ Len(state_stack) = 2
    /\ current_group # None


\* ---------------------------------------------------------------- C19
\* The container the current fragment was put in when it was entered.
ParentOfCurrent ==
    IF Last(open).group = None THEN base ELSE heap[Last(open).group].items

\* What a printed line is about, and the id it shows.
KindOfLine(line) ==
    IF line[2] = "  * " THEN "group"
    ELSE IF line[3][1] = "Fragment" THEN "fragment"
    ELSE "event"
IdOfLine(line) == line[3][2]

\* C19: the current fragment is the last child of its parent container and
\* the current group the last group of the current fragment; the lines
\* print_scenario prints show events in increasing event id, fragments in
\* increasing fragment id and groups in increasing group id.
C19_RightmostFrontier ==
    /\ current_fragment # None =>
          /\ open # <<>>
          /\ ParentOfCurrent # <<>>
          /\ current_fragment = Last(ParentOfCurrent)
    /\ current_group # None =>
          /\ current_fragment # None
          /\ current_group = Last(heap[current_fragment].groups)
    /\ LET lines == print_scenario(heap, base, 0)
       IN  /\ Len(lines) = Len(References(heap, base))
           /\ \A i, j \in DOMAIN lines :
                 (i < j /\ KindOfLine(lines[i]) = KindOfLine(lines[j]))
                    => IdOfLine(lines[i]) < IdOfLine(lines[j])

\* Inside a fragment nested behind an event in a group, with an event of
\* its own.
C19_Witness ==
    /\ Len(open) = 2
    /\ current_group # None
    /\ heap[current_group].items # <<>>
    /\ Len(heap[Last(open).group].items) = 2
    /\ IsEvent(heap[heap[Last(open).group].items[1]])

\* ---------------------------------------------------------------- C20
FragmentsOf(h) == {f \in DOMAIN h : h[f].type = "fragment"}

\* The groups whose fragment was exited, or that are no longer the last
\* group of their fragment.
ClosedGroups ==
    UNION { {heap[f].groups[i] :
                i \in {j \in DOMAIN heap[f].groups :
                          f \notin OpenFragments \/ j < Len(heap[f].groups)}} :
            f \in FragmentsOf(heap) }

\* C20: a fragment that was exited never gets a group and never is current
\* or open again; a group of an exited fragment, or one followed by a later
\* group of its fragment, never gets an item and never is current again.
C20_ClosedFrozen ==
    [][ /\ \A f \in FragmentsOf(heap) \ OpenFragments :
              /\ heap'[f] = heap[f]
              /\ f \notin OpenFragments'
              /\ current_fragment' # f
        /\ \A g \in ClosedGroups :
              /\ heap'[g] = heap[g]
              /\ g \in ClosedGroups'
              /\ current_group' # g ]_vars

\* A fragment with two groups, the first with an item, was exited and a
\* message was added after it.
C20_Witness ==
    /\ call.name = "add_message"
    /\ outcome = "ok"
    /\ current_fragment = None
    /\ Len(base) = 2
    /\ heap[base[1]].type = "fragment"
    /\ Len(heap[base[1]].groups) = 2
    /\ heap[heap[base[1]].groups[1]].items # <<>>

====
